---- MODULE Spec2Model ----
(***************************************************************************)
(* Coupon redemption and referral registration of the core app             *)
(* (src/core/models.py, src/core/views.py) as a state machine.             *)
(*                                                                         *)
(* The relational store is modelled with read-committed statements: every  *)
(* ORM call reads or writes the committed rows at the moment it runs; the   *)
(* writes of a transaction.atomic block become visible at its commit and    *)
(* vanish at its rollback.  A model instance is a private in-memory copy    *)
(* of the row it was loaded from.                                          *)
(***************************************************************************)
EXTENDS Integers, FiniteSets, Sequences, TLC

(* ------------------------------ bounds -------------------------------- *)
\* concurrent validate/redeem sessions
NumSessions == 2
\* concurrent register requests
NumRequests == 2
\* the clock runs over 0..MaxTime
MaxTime == 2
\* calls of validate with the same arguments
NumCalls == 2

\* authenticate calls followed
NumLogins == 3

\* content rows created
NumPosts == 2

(* ------------------------- program constants -------------------------- *)
\* Python None / SQL NULL of the nullable integer and date columns
None == -1
\* NULL of a nullable foreign key to User
NoUser == 0
\* None of discount_type in a response
NoType == "null"
\* calls of timezone.now() on the longest path through validate
NumClockReads == 6
\* default=0 of CouponCode.uses_count and Promotion.total_uses_count
CounterDefault == 0
\* default=0.00 of AffiliateProfile.balance and total_earned
BalanceDefault == 0
\* the fallback of getattr(settings, 'AFFILIATE_SIGNUP_COMMISSION', 1.00)
DefaultSignupCommission == 1

Sessions == 1..NumSessions
Requests == 1..NumRequests
Users == {1, 2, 3}
Promotions == {"P1"}
Coupons == {"K1", "K2"}
Affiliates == {"A1", "A2"}

VARIABLES
    now,        \* timezone.now()
    promoDb,    \* Promotion rows
    couponDb,   \* CouponCode rows
    spc,        \* position of each validate/redeem session
    starget,    \* the coupon a session works on
    suser,      \* request.user of a session
    self,       \* the CouponCode instance (with its cached promotion) a session holds
    affDb,      \* AffiliateProfile rows
    referrals,  \* committed Referral rows
    events,     \* committed TrackedEvent rows, oldest first
    rpc,        \* position of each register request
    ruser,      \* request.user of a register request
    rcode,      \* request.data['referral_code'] of a register request
    raff,       \* the AffiliateProfile a register request looked up
    rtx,        \* Referral rows a register request inserted and has not committed
    rresp,      \* the response (or the exception) of a register request
    vpc,        \* position of the validate request being served
    vcode,      \* request.data['code'] of the validate request
    vuser,      \* request.user of the validate request
    vfound,     \* the coupon the lookup of the validate request returned
    vreads,     \* the values timezone.now() returned to the request, in order
    vresp,      \* the response (or the exception) of the validate request
    vprev,       \* the response of the previous call and the clock value it ran at
    users,      \* User rows
    lastUserId, \* the id the last inserted User row got
    outbox,     \* the recipients send_templated_email was called with, oldest first
    atoken,     \* the id_token of the last authenticate call, decoded
    aret,       \* what the last authenticate call returned
    acalls,     \* authenticate calls made
    posts,      \* content rows (BlogPost, MarketingPage)
    lastPostId, \* the id the last inserted content row got
    creq        \* the last content request and its response

validateVars == <<vpc, vcode, vuser, vfound, vreads, vresp, vprev>>
couponVars == <<now, promoDb, couponDb, spc, starget, suser, self, validateVars>>
referralVars == <<affDb, referrals, events, rpc, ruser, rcode, raff, rtx, rresp>>
authVars == <<users, lastUserId, outbox, atoken, aret, acalls>>
contentVars == <<posts, lastPostId, creq>>
siteVars == <<authVars, contentVars>>
vars == <<now, promoDb, couponDb, spc, starget, suser, self,
          affDb, referrals, events, rpc, ruser, rcode, raff, rtx, rresp,
          vpc, vcode, vuser, vfound, vreads, vresp, vprev,
          users, lastUserId, outbox, atoken, aret, acalls,
          posts, lastPostId, creq>>

(* ---------------------- Promotion / CouponCode ------------------------ *)

\* the promotion check without the total usage cap
is_currently_active_uncapped(p, t) ==
    IF ~p.is_active THEN FALSE
    ELSE IF p.start_date > t THEN FALSE
    ELSE IF p.end_date # None /\ p.end_date < t THEN FALSE
    ELSE TRUE

\* Promotion.is_currently_active, with t the value timezone.now() returns
is_currently_active(p, t) ==
    IF ~p.is_active THEN FALSE
    ELSE IF p.start_date > t THEN FALSE
    ELSE IF p.end_date # None /\ p.end_date < t THEN FALSE
    ELSE IF p.max_uses # None /\ p.total_uses_count >= p.max_uses THEN FALSE
    ELSE TRUE

\* the coupon check without the user restriction
is_currently_valid_anyone(c, p, user, tp, tc) ==
    IF ~c.is_active \/ ~is_currently_active(p, tp) THEN FALSE
    ELSE IF c.valid_from # None /\ c.valid_from > tc THEN FALSE
    ELSE IF c.valid_to # None /\ c.valid_to < tc THEN FALSE
    ELSE IF c.max_uses # None /\ c.uses_count >= c.max_uses THEN FALSE
    ELSE TRUE

\* the coupon check with a cap that rejects only above max_uses
is_currently_valid_above(c, p, user, tp, tc) ==
    IF ~c.is_active \/ ~is_currently_active(p, tp) THEN FALSE
    ELSE IF c.valid_from # None /\ c.valid_from > tc THEN FALSE
    ELSE IF c.valid_to # None /\ c.valid_to < tc THEN FALSE
    ELSE IF c.max_uses # None /\ c.uses_count > c.max_uses THEN FALSE
    ELSE IF c.user_specific # NoUser /\ c.user_specific # user THEN FALSE
    ELSE TRUE

\* a validity check that enforces the per-user cap of the promotion against
\* the promotion's usage count
is_currently_valid_percap(c, p, user, tp, tc) ==
    IF ~c.is_active \/ ~is_currently_active(p, tp) THEN FALSE
    ELSE IF c.valid_from # None /\ c.valid_from > tc THEN FALSE
    ELSE IF c.valid_to # None /\ c.valid_to < tc THEN FALSE
    ELSE IF c.max_uses # None /\ c.uses_count >= c.max_uses THEN FALSE
    ELSE IF c.user_specific # NoUser /\ c.user_specific # user THEN FALSE
    ELSE IF p.max_uses_per_user # None /\ p.total_uses_count >= p.max_uses_per_user
    THEN FALSE
    ELSE TRUE

\* CouponCode.is_currently_valid: c the coupon instance, p its promotion,
\* tp and tc the clock values read by the promotion's and the coupon's check
is_currently_valid(c, p, user, tp, tc) ==
    IF ~c.is_active \/ ~is_currently_active(p, tp) THEN FALSE
    ELSE IF c.valid_from # None /\ c.valid_from > tc THEN FALSE
    ELSE IF c.valid_to # None /\ c.valid_to < tc THEN FALSE
    ELSE IF c.max_uses # None /\ c.uses_count >= c.max_uses THEN FALSE
    ELSE IF c.user_specific # NoUser /\ c.user_specific # user THEN FALSE
    ELSE TRUE

\* the in-memory instance before anything was loaded into it
NoInstance == [uses_count |-> 0, promo_cached |-> FALSE, total_uses_count |-> 0]

PromotionOf(k) == couponDb[k].promotion

\* null of the coupon a request has not looked up, and of an id in a response
NoCoupon == "null"

\* a response of ValidateCouponView.post: kind "result" is the body of
\* CouponValidationResponseSerializer, "bad_request" the 400 of the request
\* serializer, "fault" an exception that leaves the view
Response(kind, valid, message, dtype, dvalue, cid, pid) ==
    [kind |-> kind, valid |-> valid, message |-> message,
     discount_type |-> dtype, discount_value |-> dvalue,
     coupon_id |-> cid, promotion_id |-> pid]

\* no response yet
NoResponse == Response("none", FALSE, "", NoType, None, NoCoupon, NoCoupon)

\* no validate request is being served
\* a decoded id_token: the uid and the email claim of a verified token, or a
\* token that is missing or that verify_id_token rejects
Token(kind, uid, email) == [kind |-> kind, uid |-> uid, email |-> email]
NoToken == Token("missing", "", "")

\* no authenticate call was made
AuthIdle ==
    /\ users = {}
    /\ lastUserId = 0
    /\ outbox = <<>>
    /\ atoken = NoToken
    /\ aret = None
    /\ acalls = 0

\* a content request and its response: the operation, request.user, the row
\* addressed, the status sent, the status code and the rows a list returns
NoStatus == "null"
ContentCall(op, user, target, data, code, items) ==
    [op |-> op, user |-> user, target |-> target, data |-> data,
     code |-> code, items |-> items]
NoContentCall == ContentCall("none", NoUser, 0, NoStatus, 0, {})

\* no content row, no content request
ContentIdle ==
    /\ posts = {}
    /\ lastPostId = 0
    /\ creq = NoContentCall

SiteIdle == AuthIdle /\ ContentIdle

ValidateIdle ==
    /\ vpc = "done"
    /\ vcode = ""
    /\ vuser = NoUser
    /\ vfound = NoCoupon
    /\ vreads = <<>>
    /\ vresp = NoResponse
    /\ vprev = <<>>

CouponInit ==
    /\ now = 1
    /\ promoDb \in [Promotions ->
          [is_active : {TRUE}, start_date : {0}, end_date : {None, 1},
           max_uses : {None, 1, 2}, total_uses_count : {CounterDefault},
           max_uses_per_user : {None},
           discount_type : {"percentage"}, discount_value : {10}]]
    /\ couponDb \in [Coupons ->
          [promotion : Promotions, is_active : {TRUE},
           uses_count : {CounterDefault}, max_uses : {None, 1, 2},
           valid_from : {None}, valid_to : {None}, user_specific : {NoUser}]]
    /\ spc = [s \in Sessions |-> "idle"]
    /\ starget \in [Sessions -> Coupons]
    /\ suser = [s \in Sessions |-> 3]
    /\ self = [s \in Sessions |-> NoInstance]
    /\ ValidateIdle

CouponIdle ==
    /\ now = 1
    /\ promoDb = [p \in Promotions |->
          [is_active |-> TRUE, start_date |-> 0, end_date |-> None,
           max_uses |-> None, total_uses_count |-> CounterDefault,
           max_uses_per_user |-> None,
           discount_type |-> "percentage", discount_value |-> 10]]
    /\ couponDb = [k \in Coupons |->
          [promotion |-> "P1", is_active |-> TRUE,
           uses_count |-> CounterDefault, max_uses |-> None,
           valid_from |-> None, valid_to |-> None, user_specific |-> NoUser]]
    /\ spc = [s \in Sessions |-> "done"]
    /\ starget = [s \in Sessions |-> "K1"]
    /\ suser = [s \in Sessions |-> 3]
    /\ self = [s \in Sessions |-> NoInstance]
    /\ ValidateIdle

\* ValidateCouponView.post for a code that matches the session's coupon: the
\* row and its promotion are loaded (select_related) and judged; the instance
\* does not outlive the request
ValidateCoupon(s) ==
    /\ spc[s] = "idle"
    /\ LET c == couponDb[starget[s]]
           p == promoDb[c.promotion]
       IN spc' = [spc EXCEPT ![s] =
              IF is_currently_valid(c, p, suser[s], now, now)
              THEN "validated" ELSE "rejected"]
    /\ UNCHANGED <<now, promoDb, couponDb, starget, suser, self>>
    /\ UNCHANGED <<referralVars, validateVars, siteVars>>

\* the redeeming caller loads its own CouponCode instance; the promotion is
\* either fetched with it (select_related) or left to the first attribute access
LoadCoupon(s) ==
    /\ spc[s] = "validated"
    /\ \E cached \in BOOLEAN :
         self' = [self EXCEPT ![s] =
            [uses_count |-> couponDb[starget[s]].uses_count,
             promo_cached |-> cached,
             total_uses_count |->
                IF cached THEN promoDb[PromotionOf(starget[s])].total_uses_count
                ELSE 0]]
    /\ spc' = [spc EXCEPT ![s] = "loaded"]
    /\ UNCHANGED <<now, promoDb, couponDb, starget, suser>>
    /\ UNCHANGED <<referralVars, validateVars, siteVars>>

\* increment_usage, lines 275-276: both counters are raised on the instance;
\* self.promotion is fetched now when it is not cached yet
IncrementInMemory(s) ==
    /\ spc[s] = "loaded"
    /\ LET total == IF self[s].promo_cached THEN self[s].total_uses_count
                    ELSE promoDb[PromotionOf(starget[s])].total_uses_count
       IN self' = [self EXCEPT ![s] =
              [uses_count |-> self[s].uses_count + 1,
               promo_cached |-> TRUE,
               total_uses_count |-> total + 1]]
    /\ spc' = [spc EXCEPT ![s] = "incremented"]
    /\ UNCHANGED <<now, promoDb, couponDb, starget, suser>>
    /\ UNCHANGED <<referralVars, validateVars, siteVars>>

\* increment_usage, line 277: UPDATE coupon SET uses_count = <instance value>
SaveCoupon(s) ==
    /\ spc[s] = "incremented"
    /\ couponDb' = [couponDb EXCEPT ![starget[s]].uses_count = self[s].uses_count]
    /\ spc' = [spc EXCEPT ![s] = "couponSaved"]
    /\ UNCHANGED <<now, promoDb, starget, suser, self>>
    /\ UNCHANGED <<referralVars, validateVars, siteVars>>

\* increment_usage, line 278: UPDATE promotion SET total_uses_count = <instance value>
SavePromotion(s) ==
    /\ spc[s] = "couponSaved"
    /\ promoDb' = [promoDb EXCEPT ![PromotionOf(starget[s])].total_uses_count =
                      self[s].total_uses_count]
    /\ spc' = [spc EXCEPT ![s] = "done"]
    /\ UNCHANGED <<now, couponDb, starget, suser, self>>
    /\ UNCHANGED <<referralVars, validateVars, siteVars>>

(* -------------------- AffiliateProfile / Referral --------------------- *)

\* the referral codes a request may carry; "" stands for a missing or blank field
CodeInputs == {"", "REFA", "refa", "refb", "NOPE"}

\* str.upper() on the codes of the model
Upper(c) ==
    CASE c = "refa" -> "REFA"
      [] c = "save10" -> "SAVE10"
      [] c = "refb" -> "REFB"
      [] OTHER -> c

\* field lookup __iexact: equality ignoring letter case
iexact(a, b) == Upper(a) = Upper(b)

\* the lookup with an exact, case-sensitive comparison
MatchingProfilesExact(code) == {a \in DOMAIN affDb : affDb[a].referral_code = code}

\* AffiliateProfile.objects.get(referral_code__iexact=code): the matching rows
MatchingProfiles(code) == {a \in DOMAIN affDb : iexact(affDb[a].referral_code, code)}

\* the existence query narrowed to the referrals whose commission was awarded
ReferralsOfUserAwarded(r, user) ==
    {row \in referrals \cup rtx[r] :
        row.referred_user = user /\ row.status = "commission_awarded"}

\* Referral.objects.filter(referred_user=user): the rows the request can see,
\* the committed ones and those of its own transaction
ReferralsOfUser(r, user) == {row \in referrals \cup rtx[r] : row.referred_user = user}

\* unique_together = ('referred_user', 'affiliate_profile')
SameKey(x, y) ==
    /\ x.referred_user = y.referred_user
    /\ x.affiliate_profile = y.affiliate_profile

\* the row Referral.objects.create(...) inserts, lines 458-464
NewReferral(user, code, a) ==
    [referred_user |-> user, referral_code_used |-> Upper(code),
     affiliate_profile |-> a, commission_earned |-> None, status |-> "pending"]

\* line 469, getattr(settings, 'AFFILIATE_SIGNUP_COMMISSION', 1.00): views.py
\* binds the name settings nowhere (its imports are lines 1-16), so evaluating
\* the argument raises NameError before getattr can fall back to 1.00
SignupCommission == [raises |-> TRUE, value |-> DefaultSignupCommission]

AffiliateRows ==
    [a \in Affiliates |->
        [user |-> IF a = "A1" THEN 1 ELSE 2,
         referral_code |-> IF a = "A1" THEN "REFA" ELSE "REFB",
         balance |-> BalanceDefault, total_earned |-> BalanceDefault,
         is_active |-> TRUE]]

\* a Referral row entered through the admin site (ReferralAdmin) beforehand
AdminReferral(u, a) ==
    [referred_user |-> u, referral_code_used |-> AffiliateRows[a].referral_code,
     affiliate_profile |-> a, commission_earned |-> None, status |-> "pending"]

NoProfile == "none"

ReferralInit ==
    /\ affDb = AffiliateRows
    /\ referrals \in {{}, {AdminReferral(3, "A1")}, {AdminReferral(2, "A1")}}
    /\ events = <<>>
    /\ rpc = [r \in Requests |-> "idle"]
    /\ ruser = [r \in Requests |-> NoUser]
    /\ rcode = [r \in Requests |-> ""]
    /\ raff = [r \in Requests |-> NoProfile]
    /\ rtx = [r \in Requests |-> {}]
    /\ rresp = [r \in Requests |-> "none"]

ReferralIdle ==
    /\ affDb = AffiliateRows
    /\ referrals = {}
    /\ events = <<>>
    /\ rpc = [r \in Requests |-> "done"]
    /\ ruser = [r \in Requests |-> NoUser]
    /\ rcode = [r \in Requests |-> ""]
    /\ raff = [r \in Requests |-> NoProfile]
    /\ rtx = [r \in Requests |-> {}]
    /\ rresp = [r \in Requests |-> "none"]

\* the committed rows a register request can change
stored == <<affDb, referrals, events>>

InFlight(r) == rpc[r] \in {"started", "checked", "found", "inserted"}

\* an authenticated user posts a referral code; transaction.atomic opens
RegBegin(r) ==
    /\ rpc[r] = "idle"
    /\ \E u \in Users, code \in CodeInputs :
         /\ ruser' = [ruser EXCEPT ![r] = u]
         /\ rcode' = [rcode EXCEPT ![r] = code]
    /\ rpc' = [rpc EXCEPT ![r] = "started"]
    /\ UNCHANGED <<raff, rtx, rresp>>
    /\ UNCHANGED stored
    /\ UNCHANGED <<couponVars, siteVars>>

\* a response is returned: the atomic block commits what the request wrote
Respond(r, what) ==
    /\ rpc' = [rpc EXCEPT ![r] = "done"]
    /\ rresp' = [rresp EXCEPT ![r] = what]
    /\ referrals' = referrals \cup rtx[r]
    /\ rtx' = [rtx EXCEPT ![r] = {}]
    /\ UNCHANGED <<affDb, events>>

\* the block left by an exception with its writes kept, as under autocommit
RollbackAutocommit(r, what) ==
    /\ rpc' = [rpc EXCEPT ![r] = "failed"]
    /\ rresp' = [rresp EXCEPT ![r] = what]
    /\ referrals' = referrals \cup rtx[r]
    /\ rtx' = [rtx EXCEPT ![r] = {}]
    /\ UNCHANGED <<affDb, events>>

\* line 430, @transaction.atomic: an exception leaves post and the block is
\* rolled back, its writes discarded
Rollback(r, what) ==
    /\ rpc' = [rpc EXCEPT ![r] = "failed"]
    /\ rresp' = [rresp EXCEPT ![r] = what]
    /\ rtx' = [rtx EXCEPT ![r] = {}]
    /\ UNCHANGED stored

\* the request moves on to `pos` inside its transaction
Goto(r, pos) ==
    /\ rpc' = [rpc EXCEPT ![r] = pos]
    /\ UNCHANGED rresp
    /\ UNCHANGED stored

\* lines 433-437: has this user been recorded as a referral already?
RegCheckExisting(r) ==
    /\ rpc[r] = "started"
    /\ IF ReferralsOfUser(r, ruser[r]) # {}
       THEN Respond(r, "AlreadyReferred")
       ELSE Goto(r, "checked") /\ UNCHANGED rtx
    /\ UNCHANGED <<ruser, rcode, raff>>
    /\ UNCHANGED <<couponVars, siteVars>>

\* the instance AffiliateProfile.objects.get returns for row a
ProfileInstance(a) ==
    [id |-> a, user |-> affDb[a].user,
     balance |-> affDb[a].balance, total_earned |-> affDb[a].total_earned]

\* a self check that lets everyone through
IsSelfNever(profile, user) == FALSE

\* lines 453-455: affiliate_profile.user == user_to_be_referred
IsSelf(profile, user) == profile.user = user

\* lines 439-455: the serializer, the lookup of the code's owner, the self check
RegLookup(r) ==
    /\ rpc[r] = "checked"
    /\ LET found == MatchingProfiles(rcode[r]) IN
       IF rcode[r] = "" THEN
            Respond(r, "BadRequest") /\ UNCHANGED raff
       ELSE IF found = {} THEN
            Respond(r, "InvalidCode") /\ UNCHANGED raff
       ELSE IF Cardinality(found) > 1 THEN
            Rollback(r, "MultipleObjectsReturned") /\ UNCHANGED raff
       ELSE IF IsSelf(ProfileInstance(CHOOSE a \in found : TRUE), ruser[r]) THEN
            Respond(r, "SelfReferral") /\ UNCHANGED raff
       ELSE /\ Goto(r, "found")
            /\ raff' = [raff EXCEPT ![r] = ProfileInstance(CHOOSE a \in found : TRUE)]
            /\ UNCHANGED rtx
    /\ UNCHANGED <<ruser, rcode>>
    /\ UNCHANGED <<couponVars, siteVars>>

\* lines 458-464: INSERT of the Referral row.  A committed row with the same
\* (referred_user, affiliate_profile) makes it fail; while another transaction
\* holds an uncommitted row with that key the statement waits
RegInsert(r) ==
    /\ rpc[r] = "found"
    /\ LET row == NewReferral(ruser[r], rcode[r], raff[r].id) IN
       /\ \A q \in Requests \ {r} : \A x \in rtx[q] : ~SameKey(x, row)
       /\ IF \E x \in referrals : SameKey(x, row)
          THEN Rollback(r, "IntegrityError")
          ELSE /\ Goto(r, "inserted")
               /\ rtx' = [rtx EXCEPT ![r] = {row}]
    /\ UNCHANGED <<ruser, rcode, raff>>
    /\ UNCHANGED <<couponVars, siteVars>>

\* lines 470-477 on the inserted row: the commission and the new status
Awarded(row, c) ==
    IF c > 0 THEN [row EXCEPT !.commission_earned = c, !.status = "commission_awarded"]
    ELSE row

\* line 479: TrackedEvent.objects.create(...) in views.py, whose imports
\* (lines 10-13) do not bring in TrackedEvent: evaluating the name raises
\* NameError
EventLog == [raises |-> TRUE]

\* lines 469-490: the commission is read from the settings, credited to the
\* profile instance and saved, the event is logged, 201 is returned and the
\* atomic block commits; an exception rolls everything back
RegAward(r) ==
    /\ rpc[r] = "inserted"
    /\ IF SignupCommission.raises
       THEN Rollback(r, "NameError")
       ELSE IF EventLog.raises
       THEN Rollback(r, "NameError")
       ELSE LET c == SignupCommission.value
                a == raff[r].id
            IN /\ affDb' = IF c > 0
                           THEN [affDb EXCEPT ![a].balance = raff[r].balance + c,
                                              ![a].total_earned = raff[r].total_earned + c]
                           ELSE affDb
               /\ referrals' = referrals \cup {Awarded(row, c) : row \in rtx[r]}
               /\ events' = Append(events,
                     [event_type |-> "user_referred", user |-> ruser[r],
                      referral_code |-> rcode[r], affiliate_user_id |-> raff[r].user,
                      commission_earned |-> c])
               /\ rtx' = [rtx EXCEPT ![r] = {}]
               /\ rpc' = [rpc EXCEPT ![r] = "done"]
               /\ rresp' = [rresp EXCEPT ![r] = "Created"]
    /\ UNCHANGED <<ruser, rcode, raff>>
    /\ UNCHANGED <<couponVars, siteVars>>

\* a storage fault (lost connection, statement timeout) in a statement of the
\* block: the exception leaves post and transaction.atomic rolls back
RegFault(r) ==
    /\ InFlight(r)
    /\ Rollback(r, "Fault")
    /\ UNCHANGED <<ruser, rcode, raff>>
    /\ UNCHANGED <<couponVars, siteVars>>

(* --------------------------- specifications --------------------------- *)

RedeemNext ==
    \E s \in Sessions :
        \/ ValidateCoupon(s)
        \/ LoadCoupon(s)
        \/ IncrementInMemory(s)
        \/ SaveCoupon(s)
        \/ SavePromotion(s)

\* concurrent validate/redeem sessions over the coupons of one store
RedeemInit == CouponInit /\ ReferralIdle /\ SiteIdle

SpecRedeem == RedeemInit /\ [][RedeemNext]_vars

RegisterNext ==
    \E r \in Requests :
        \/ RegBegin(r)
        \/ RegCheckExisting(r)
        \/ RegLookup(r)
        \/ RegInsert(r)
        \/ RegAward(r)
        \/ RegFault(r)

\* concurrent register requests
RegisterInit == ReferralInit /\ CouponIdle /\ SiteIdle

SpecRegister == RegisterInit /\ [][RegisterNext]_vars

\* one register request at a time
\* a request arrives while no other one is being served
RegBeginAlone(r) ==
    /\ \A q \in Requests : ~InFlight(q)
    /\ RegBegin(r)

RegisterSeqNext ==
    \E r \in Requests :
        \/ RegBeginAlone(r)
        \/ RegCheckExisting(r)
        \/ RegLookup(r)
        \/ RegInsert(r)
        \/ RegAward(r)
        \/ RegFault(r)

SpecRegisterSeq == RegisterInit /\ [][RegisterSeqNext]_vars

(* ------------- ReferralAdmin / AffiliateProfileDetailView ------------- *)

\* Referral.REFERRAL_STATUS_CHOICES
ReferralStatuses == {"pending", "confirmed", "commission_awarded", "paid_out", "cancelled"}

\* queryset.update(status=st) on the selected rows
MarkSelected(sel, st) ==
    /\ sel # {}
    /\ referrals' = (referrals \ sel) \cup {[row EXCEPT !.status = st] : row \in sel}
    /\ UNCHANGED <<affDb, events, rpc, ruser, rcode, raff, rtx, rresp>>
    /\ UNCHANGED <<couponVars, siteVars>>

\* the admin actions of ReferralAdmin on the rows ticked in the change list
mark_confirmed(sel) == MarkSelected(sel, "confirmed")
mark_commission_awarded(sel) == MarkSelected(sel, "commission_awarded")
mark_paid_out(sel) == MarkSelected(sel, "paid_out")
mark_cancelled(sel) == MarkSelected(sel, "cancelled")

\* PATCH /admin/referrals/<id>/ by a staff user: ReferralSerializer leaves
\* status writable and checks it against the choices only
ReferralApiUpdate(row, st) ==
    /\ row \in referrals
    /\ referrals' = (referrals \ {row}) \cup {[row EXCEPT !.status = st]}
    /\ UNCHANGED <<affDb, events, rpc, ruser, rcode, raff, rtx, rresp>>
    /\ UNCHANGED <<couponVars, siteVars>>

ProfilesOf(u) == {a \in DOMAIN affDb : affDb[a].user = u}

\* the row AffiliateProfile.objects.get_or_create(user=u) creates: the code
\* is generated, the amounts take their default
CreatedProfile(u) ==
    [user |-> u, referral_code |-> "GEN3",
     balance |-> BalanceDefault, total_earned |-> BalanceDefault,
     is_active |-> TRUE]

\* AffiliateProfileDetailView.get: the profile is fetched or created; after a
\* creation line 399 raises NameError (TrackedEvent is not imported), the
\* created row stays
ProfileGet(u) ==
    /\ affDb' = IF ProfilesOf(u) = {} THEN affDb @@ ("A3" :> CreatedProfile(u))
                ELSE affDb
    /\ UNCHANGED <<referrals, events, rpc, ruser, rcode, raff, rtx, rresp>>
    /\ UNCHANGED <<couponVars, siteVars>>

\* the data a PATCH of the profile may carry
PatchInputs == [is_active : BOOLEAN, balance : {None, 0, 5}]

\* a serializer that accepts the balance sent by the client
PatchedProfileWritable(row, data) ==
    [row EXCEPT !.is_active = data.is_active,
                !.balance = IF data.balance = None THEN @ ELSE data.balance]

\* AffiliateProfileSerializer(partial=True).save(): balance, total_earned and
\* referral_code are read-only and dropped from the data
PatchedProfile(row, data) == [row EXCEPT !.is_active = data.is_active]

\* AffiliateProfileDetailView.patch: 404 without a profile; else the row is
\* saved, then line 414 raises NameError
ProfilePatch(u, data) ==
    /\ ProfilesOf(u) # {}
    /\ LET a == CHOOSE x \in ProfilesOf(u) : TRUE IN
       affDb' = [affDb EXCEPT ![a] = PatchedProfile(@, data)]
    /\ UNCHANGED <<referrals, events, rpc, ruser, rcode, raff, rtx, rresp>>
    /\ UNCHANGED <<couponVars, siteVars>>

\* the register request followed next to the staff's and the affiliate's steps
Registering == {1}

ReferralAdminNext ==
    \/ \E r \in Registering :
        \/ RegBeginAlone(r)
        \/ RegCheckExisting(r)
        \/ RegLookup(r)
        \/ RegInsert(r)
        \/ RegAward(r)
        \/ RegFault(r)
    \/ \E sel \in SUBSET referrals :
        \/ mark_confirmed(sel)
        \/ mark_commission_awarded(sel)
        \/ mark_paid_out(sel)
        \/ mark_cancelled(sel)
    \/ \E row \in referrals, st \in ReferralStatuses : ReferralApiUpdate(row, st)

\* a register request and the staff's changes of referral rows
SpecReferralAdmin == RegisterInit /\ [][ReferralAdminNext]_vars

AffiliateNext ==
    \/ \E r \in Registering :
        \/ RegBeginAlone(r)
        \/ RegCheckExisting(r)
        \/ RegLookup(r)
        \/ RegInsert(r)
        \/ RegAward(r)
        \/ RegFault(r)
    \/ \E sel \in SUBSET referrals : mark_cancelled(sel)
    \/ \E u \in Users : ProfileGet(u)
    \/ \E u \in Users, data \in PatchInputs : ProfilePatch(u, data)

\* a register request, cancellations and the profile view
SpecAffiliate == RegisterInit /\ [][AffiliateNext]_vars

(* ------------------------ ValidateCouponView -------------------------- *)

\* the codes a validate request may carry; "" stands for a missing or blank field
ValidateInputs == {"", "save10", "NOPE"}

\* CouponCode.objects.select_related('promotion').get(code__iexact=code_str):
\* the matching rows
MatchingCoupons(code) == {k \in Coupons : iexact(couponDb[k].code, code)}

\* the answer for an unknown code that names the coupon table's first rows
InvalidCodeResponseWithIds ==
    Response("result", FALSE, "Invalid coupon code.", NoType, None, "K1", "P1")

\* the response when no coupon matches
InvalidCodeResponse ==
    Response("result", FALSE, "Invalid coupon code.", NoType, None, NoCoupon, NoCoupon)

\* the chain with a first branch that looks at the coupon's flag only
InvalidMessageCouponFlag(c, p, user, m1, m2, m3, m4) ==
    IF ~c.is_active THEN "Coupon code is not active."
    ELSE IF p.start_date > m1 THEN "Promotion has not started yet."
    ELSE IF p.end_date # None /\ p.end_date < m2 THEN "Promotion has expired."
    ELSE IF c.valid_from # None /\ c.valid_from > m3 THEN "Coupon is not yet valid."
    ELSE IF c.valid_to # None /\ c.valid_to < m4 THEN "Coupon has expired."
    ELSE IF c.max_uses # None /\ c.uses_count >= c.max_uses
         THEN "Coupon has reached its usage limit."
    ELSE IF c.user_specific # NoUser /\ c.user_specific # user
         THEN "Coupon is not valid for this user."
    ELSE "Coupon code cannot be applied."

\* the reason given for an invalid coupon: the first branch of the elif chain
\* that applies.  m1..m4 are the values of the four timezone.now() calls of
\* the chain (lines 362, 364, 366, 368), each made only if its branch is reached
InvalidMessage(c, p, user, m1, m2, m3, m4) ==
    IF ~c.is_active \/ ~p.is_active THEN "Coupon code is not active."
    ELSE IF p.start_date > m1 THEN "Promotion has not started yet."
    ELSE IF p.end_date # None /\ p.end_date < m2 THEN "Promotion has expired."
    ELSE IF c.valid_from # None /\ c.valid_from > m3 THEN "Coupon is not yet valid."
    ELSE IF c.valid_to # None /\ c.valid_to < m4 THEN "Coupon has expired."
    ELSE IF c.max_uses # None /\ c.uses_count >= c.max_uses
         THEN "Coupon has reached its usage limit."
    ELSE IF c.user_specific # NoUser /\ c.user_specific # user
         THEN "Coupon is not valid for this user."
    ELSE "Coupon code cannot be applied."

\* the body the view builds for the coupon c (id k) of promotion p.  t holds the values
\* of the clock reads of the request in program order: t[1] in
\* Promotion.is_currently_active, t[2] in CouponCode.is_currently_valid,
\* t[3..6] in the elif chain.  A read the code skips has no effect on the body
ResultFor(c, p, k, user, t) ==
    IF is_currently_valid(c, p, user, t[1], t[2])
    THEN Response("result", TRUE, "Coupon is valid.",
                  p.discount_type, p.discount_value, k, c.promotion)
    ELSE Response("result", FALSE,
                  InvalidMessage(c, p, user, t[3], t[4], t[5], t[6]),
                  NoType, None, k, c.promotion)

\* the body for the stored coupon k and its stored promotion
ValidationResult(k, user, t) ==
    ResultFor(couponDb[k], promoDb[couponDb[k].promotion], k, user, t)

\* a validate that redeems the coupon it accepts
ValidateSavesUsage(rows, k, valid) ==
    IF valid THEN [rows EXCEPT ![k].uses_count = @ + 1] ELSE rows

\* the coupon rows after the view has answered for coupon k: post calls no
\* save(), update() or create()
ValidateSaves(rows, k, valid) == rows

\* the coupon, its promotion, the stored codes, the submitted code, the
\* requesting user and the clock of a validate request
ValidateInit ==
    /\ now \in 0..MaxTime
    /\ promoDb \in [Promotions ->
          [is_active : BOOLEAN, start_date : {0, 1}, end_date : {None, 1},
           max_uses : {None, 1}, total_uses_count : {CounterDefault, 1},
           max_uses_per_user : {None},
           discount_type : {"percentage"}, discount_value : {10}]]
    /\ \E k1 \in [promotion : Promotions, is_active : BOOLEAN,
                  uses_count : {CounterDefault, 1}, max_uses : {None, 1},
                  valid_from : {None, 1}, valid_to : {None, 1},
                  user_specific : {NoUser, 1}, code : {"SAVE10"}],
          code2 \in {"save10", "OTHER"} :
          couponDb = [k \in Coupons |->
              IF k = "K1" THEN k1
              ELSE [promotion |-> "P1", is_active |-> TRUE,
                    uses_count |-> CounterDefault, max_uses |-> None,
                    valid_from |-> None, valid_to |-> None,
                    user_specific |-> NoUser, code |-> code2]]
    /\ spc = [s \in Sessions |-> "done"]
    /\ starget = [s \in Sessions |-> "K1"]
    /\ suser = [s \in Sessions |-> 3]
    /\ self = [s \in Sessions |-> NoInstance]
    /\ vpc = "idle"
    /\ vcode \in ValidateInputs
    /\ vuser \in {1, 2}
    /\ vfound = NoCoupon
    /\ vreads = <<>>
    /\ vresp = NoResponse
    /\ vprev = <<>>
    /\ ReferralIdle
    /\ SiteIdle

\* timezone.now() moves on
Tick ==
    /\ now < MaxTime
    /\ now' = now + 1
    /\ UNCHANGED <<promoDb, couponDb, spc, starget, suser, self, validateVars>>
    /\ UNCHANGED <<referralVars, siteVars>>

\* lines 331-343: the request serializer, then the lookup of the code
ValLookup ==
    /\ vpc = "idle"
    /\ LET found == MatchingCoupons(vcode) IN
       IF vcode = "" THEN
            /\ vresp' = Response("bad_request", FALSE, "This field may not be blank.",
                                 NoType, None, NoCoupon, NoCoupon)
            /\ vpc' = "done"
            /\ UNCHANGED vfound
       ELSE IF found = {} THEN
            /\ vresp' = InvalidCodeResponse
            /\ vpc' = "done"
            /\ UNCHANGED vfound
       ELSE IF Cardinality(found) > 1 THEN
            /\ vresp' = Response("fault", FALSE, "MultipleObjectsReturned",
                                 NoType, None, NoCoupon, NoCoupon)
            /\ vpc' = "done"
            /\ UNCHANGED vfound
       ELSE /\ vfound' = CHOOSE k \in found : TRUE
            /\ vpc' = "found"
            /\ UNCHANGED vresp
    /\ UNCHANGED <<now, promoDb, couponDb, spc, starget, suser, self>>
    /\ UNCHANGED <<vcode, vuser, vreads, vprev>>
    /\ UNCHANGED <<referralVars, siteVars>>

\* the calls of timezone.now() the request makes for coupon c of promotion p:
\* none when either is inactive, since is_currently_valid, is_currently_active
\* and the elif chain test the flags before they read the clock
ClockReadsOf(c, p) == IF ~c.is_active \/ ~p.is_active THEN 0 ELSE NumClockReads

\* one call of timezone.now() inside is_currently_valid or the elif chain
ValReadClock ==
    /\ vpc = "found"
    /\ Len(vreads) < ClockReadsOf(couponDb[vfound], promoDb[couponDb[vfound].promotion])
    /\ vreads' = Append(vreads, now)
    /\ UNCHANGED <<now, promoDb, couponDb, spc, starget, suser, self>>
    /\ UNCHANGED <<vpc, vcode, vuser, vfound, vresp, vprev>>
    /\ UNCHANGED <<referralVars, siteVars>>

\* the clock values the request read, in the six positions of the longest
\* path; a position whose read the code skipped holds the present value and is
\* not looked at
ReadsMade == vreads \o [i \in 1..(NumClockReads - Len(vreads)) |-> now]

\* lines 345-380: the body for the coupon found, serialized and returned
ValRespond ==
    /\ vpc = "found"
    /\ Len(vreads) = ClockReadsOf(couponDb[vfound], promoDb[couponDb[vfound].promotion])
    /\ LET body == ValidationResult(vfound, vuser, ReadsMade) IN
       /\ vresp' = body
       /\ couponDb' = ValidateSaves(couponDb, vfound, body.valid)
    /\ vpc' = "done"
    /\ UNCHANGED <<now, promoDb, spc, starget, suser, self>>
    /\ UNCHANGED <<vcode, vuser, vfound, vreads, vprev>>
    /\ UNCHANGED <<referralVars, siteVars>>

\* every clock read of the request answered returned the present value
ClockStood == \A i \in 1..Len(vreads) : vreads[i] = now

\* the same request is posted again while the clock stands
ValAgain ==
    /\ vpc = "done"
    /\ Len(vprev) + 1 < NumCalls
    /\ ClockStood
    /\ vprev' = Append(vprev, [resp |-> vresp, at |-> now])
    /\ vpc' = "idle"
    /\ vfound' = NoCoupon
    /\ vreads' = <<>>
    /\ vresp' = NoResponse
    /\ UNCHANGED <<now, promoDb, couponDb, spc, starget, suser, self>>
    /\ UNCHANGED <<vcode, vuser>>
    /\ UNCHANGED <<referralVars, siteVars>>

ValidateNext ==
    \/ Tick
    \/ ValLookup
    \/ ValReadClock
    \/ ValRespond
    \/ ValAgain

\* validate requests of one client under a moving clock
SpecValidate == ValidateInit /\ [][ValidateNext]_vars

(* ------------------- FirebaseAuthenticationBackend -------------------- *)

Uids == {"u1", "u2"}
Emails == {"a@x", "b@x"}

\* the id_tokens a call may carry: verified ones (with or without an email
\* claim), a rejected one, and none
Tokens ==
    {Token("ok", uid, email) : uid \in Uids, email \in Emails \cup {""}}
        \cup {Token("invalid", "", ""), NoToken}

\* a User row; firebase_uid is NoUid (NULL) for a user entered without one
NoUid == "null"
UserRow(id, uid, email, username) ==
    [id |-> id, firebase_uid |-> uid, email |-> email, username |-> username,
     is_active |-> TRUE]

\* a user entered by createsuperuser, not linked to an external identity
LocalUser == UserRow(1, NoUid, "a@x", "staff")

\* the tables before the first authenticate call
AuthInit ==
    /\ users \in {{}, {LocalUser}}
    /\ lastUserId = Cardinality(users)
    /\ outbox = <<>>
    /\ atoken = NoToken
    /\ aret = None
    /\ acalls = 0
    /\ events = <<>>
    /\ affDb = <<>>
    /\ referrals = {}
    /\ rpc = [r \in Requests |-> "done"]
    /\ ruser = [r \in Requests |-> NoUser]
    /\ rcode = [r \in Requests |-> ""]
    /\ raff = [r \in Requests |-> NoProfile]
    /\ rtx = [r \in Requests |-> {}]
    /\ rresp = [r \in Requests |-> "none"]
    /\ CouponIdle
    /\ ContentIdle

UsersWithUid(uid) == {u \in users : u.firebase_uid = uid}

\* unique=True of User.email and of AbstractUser.username: the INSERT of
\* get_or_create raises IntegrityError when either value is in use
InsertRaises(email, username) ==
    \E u \in users : u.email = email \/ u.username = username

\* line 132: User.objects.filter(email=email).exclude(firebase_uid=firebase_uid).exists()
EmailTaken(email, uid) ==
    \E u \in users : u.email = email /\ u.firebase_uid # uid

\* the outcome of a call that returns None and writes nothing
AuthReturnsNone(tok) ==
    /\ aret' = None
    /\ UNCHANGED <<users, lastUserId, outbox, events>>

\* created is True: lines 78-125
AuthCreate(tok) ==
    LET id == lastUserId + 1 IN
    /\ users' = users \cup {UserRow(id, tok.uid, tok.email, tok.uid)}
    /\ lastUserId' = id
    /\ outbox' = Append(outbox, tok.email)
    /\ events' = Append(events,
          [event_type |-> "user_signup", user |-> id, timestamp |-> now,
           firebase_uid |-> tok.uid, email |-> tok.email])
    /\ aret' = id

\* created is False: lines 127-143
AuthExisting(tok) ==
    LET user == CHOOSE u \in UsersWithUid(tok.uid) : TRUE
        email == IF user.email # tok.email /\ ~EmailTaken(tok.email, tok.uid)
                 THEN tok.email ELSE user.email
    IN /\ users' = (users \ {user}) \cup
                      {[user EXCEPT !.email = email, !.username = tok.uid]}
       /\ aret' = user.id
       /\ UNCHANGED <<lastUserId, outbox, events>>

\* FirebaseAuthenticationBackend.authenticate(request, id_token)
Authenticate(tok) ==
    /\ acalls < NumLogins
    /\ acalls' = acalls + 1
    /\ atoken' = tok
    /\ IF tok.kind # "ok" THEN AuthReturnsNone(tok)
       ELSE IF tok.email = "" THEN AuthReturnsNone(tok)
       ELSE IF UsersWithUid(tok.uid) # {} THEN AuthExisting(tok)
       ELSE IF InsertRaises(tok.email, tok.uid) THEN AuthReturnsNone(tok)
       ELSE AuthCreate(tok)
    /\ UNCHANGED <<affDb, referrals, rpc, ruser, rcode, raff, rtx, rresp>>
    /\ UNCHANGED <<couponVars, contentVars>>

LoginNext == \E tok \in Tokens : Authenticate(tok)

\* authenticate calls, one after the other
SpecLogin == AuthInit /\ [][LoginNext]_vars

\* the i-th row of the event log removed
WithoutEvent(i) ==
    [j \in 1..(Len(events) - 1) |-> IF j < i THEN events[j] ELSE events[j + 1]]

\* TrackedEventAdmin: adding and changing are refused; has_delete_permission
\* is not overridden, so a staff user deletes rows in the change list
AdminDeleteEvent(i) ==
    /\ i \in 1..Len(events)
    /\ events' = WithoutEvent(i)
    /\ UNCHANGED <<affDb, referrals, rpc, ruser, rcode, raff, rtx, rresp>>
    /\ UNCHANGED <<couponVars, authVars, contentVars>>

\* on_delete=SET_NULL of TrackedEvent.user
UserSetNull(e, id) == IF e.user = id THEN [e EXCEPT !.user = None] ELSE e

\* UserAdmin: a staff user deletes a User; the events of that user stay with
\* user NULL
AdminDeleteUser(u) ==
    /\ u \in users
    /\ users' = users \ {u}
    /\ events' = [i \in 1..Len(events) |-> UserSetNull(events[i], u.id)]
    /\ UNCHANGED <<lastUserId, outbox, atoken, aret, acalls>>
    /\ UNCHANGED <<affDb, referrals, rpc, ruser, rcode, raff, rtx, rresp>>
    /\ UNCHANGED <<couponVars, contentVars>>

AuditNext ==
    \/ \E tok \in Tokens : Authenticate(tok)
    \/ \E i \in 1..NumLogins : AdminDeleteEvent(i)
    \/ \E u \in users : AdminDeleteUser(u)

\* authenticate calls and the staff's deletions in the admin site
SpecAudit == AuthInit /\ [][AuditNext]_vars

(* ------------------ BaseContentViewSet / ContentAdmin ----------------- *)

\* ContentBase.STATUS_CHOICES
ContentStatuses == {"draft", "review", "published", "archived"}
\* the statuses the requests followed send
StatusInputs == {"draft", "published"}

\* request.user
Requester(id, is_authenticated, is_staff) ==
    [id |-> id, is_authenticated |-> is_authenticated, is_staff |-> is_staff]
Anonymous == Requester(NoUser, FALSE, FALSE)
StaffUser == Requester(3, TRUE, TRUE)
Requesters == {Anonymous, Requester(1, TRUE, FALSE), Requester(2, TRUE, FALSE), StaffUser}

PostIds == 1..NumPosts

ContentRow(id, author, status, published_at) ==
    [id |-> id, author |-> author, status |-> status, published_at |-> published_at]

\* a queryset in which a signed-in user sees the user's own rows only
get_queryset_own(user) ==
    IF user.is_authenticated /\ user.is_staff THEN posts
    ELSE IF user.is_authenticated THEN {p \in posts : p.author = user.id}
    ELSE {p \in posts : p.status = "published"}

\* BaseContentViewSet.get_queryset
get_queryset(user) ==
    IF user.is_authenticated /\ user.is_staff THEN posts
    ELSE IF user.is_authenticated
    THEN {p \in posts : p.author = user.id}
            \cup {p \in posts : p.status = "published" /\ p.author # user.id}
    ELSE {p \in posts : p.status = "published"}

\* an object permission that lets every signed-in user write
has_object_permission_any(user, safe, obj) ==
    IF safe
    THEN IF obj.status = "published" THEN TRUE
         ELSE user.is_authenticated /\ (obj.author = user.id \/ user.is_staff)
    ELSE user.is_authenticated

\* IsAuthorOrAdminOrReadOnly.has_object_permission; safe is
\* request.method in SAFE_METHODS
has_object_permission(user, safe, obj) ==
    IF safe
    THEN IF obj.status = "published" THEN TRUE
         ELSE user.is_authenticated /\ (obj.author = user.id \/ user.is_staff)
    ELSE IF ~user.is_authenticated THEN FALSE
    ELSE obj.author = user.id \/ user.is_staff

\* get_object(): the row of the queryset with the slug of the URL
Found(user, id) == {p \in get_queryset(user) : p.id = id}

ContentAnswer(op, user, id, data, code, items) ==
    creq' = ContentCall(op, user.id, id, data, code, items)

\* GET /posts/
ContentList(user) ==
    /\ ContentAnswer("list", user, 0, NoStatus, 200, {p.id : p \in get_queryset(user)})
    /\ UNCHANGED <<posts, lastPostId>>
    /\ UNCHANGED <<couponVars, referralVars, authVars>>

\* GET /posts/<slug>/
ContentRetrieve(user, id) ==
    /\ IF Found(user, id) = {} THEN ContentAnswer("retrieve", user, id, NoStatus, 404, {})
       ELSE IF \A p \in Found(user, id) : has_object_permission(user, TRUE, p)
       THEN ContentAnswer("retrieve", user, id, NoStatus, 200, {id})
       ELSE ContentAnswer("retrieve", user, id, NoStatus, 403, {})
    /\ UNCHANGED <<posts, lastPostId>>
    /\ UNCHANGED <<couponVars, referralVars, authVars>>

\* POST /posts/: IsAuthenticatedOrReadOnly, then perform_create; published_at
\* is read-only in the serializer and keeps its default, NULL
ContentCreate(user, status) ==
    /\ user.is_authenticated => lastPostId < NumPosts
    /\ IF ~user.is_authenticated
       THEN /\ ContentAnswer("create", user, 0, status, 403, {})
            /\ UNCHANGED <<posts, lastPostId>>
       ELSE /\ posts' = posts \cup {ContentRow(lastPostId + 1, user.id, status, None)}
            /\ lastPostId' = lastPostId + 1
            /\ ContentAnswer("create", user, lastPostId + 1, status, 201, {})
    /\ UNCHANGED <<couponVars, referralVars, authVars>>

\* perform_update: the row after serializer.save(...); data is the status sent,
\* NoStatus when the request carries none
Updated(instance, data) ==
    LET new_status == IF data = NoStatus THEN instance.status ELSE data IN
    IF new_status = "published" /\ instance.published_at = None
    THEN [instance EXCEPT !.status = new_status, !.published_at = now]
    ELSE IF new_status # "published" /\ instance.published_at # None
    THEN [instance EXCEPT !.status = new_status, !.published_at = None]
    ELSE [instance EXCEPT !.status = new_status]

\* PUT/PATCH /posts/<slug>/
ContentUpdate(user, id, data) ==
    /\ IF ~user.is_authenticated
       THEN ContentAnswer("update", user, id, data, 403, {}) /\ UNCHANGED posts
       ELSE IF Found(user, id) = {}
       THEN ContentAnswer("update", user, id, data, 404, {}) /\ UNCHANGED posts
       ELSE IF \E p \in Found(user, id) : ~has_object_permission(user, FALSE, p)
       THEN ContentAnswer("update", user, id, data, 403, {}) /\ UNCHANGED posts
       ELSE /\ posts' = (posts \ Found(user, id))
                           \cup {Updated(p, data) : p \in Found(user, id)}
            /\ ContentAnswer("update", user, id, data, 200, {})
    /\ UNCHANGED lastPostId
    /\ UNCHANGED <<couponVars, referralVars, authVars>>

\* DELETE /posts/<slug>/
ContentDestroy(user, id) ==
    /\ IF ~user.is_authenticated
       THEN ContentAnswer("destroy", user, id, NoStatus, 403, {}) /\ UNCHANGED posts
       ELSE IF Found(user, id) = {}
       THEN ContentAnswer("destroy", user, id, NoStatus, 404, {}) /\ UNCHANGED posts
       ELSE IF \E p \in Found(user, id) : ~has_object_permission(user, FALSE, p)
       THEN ContentAnswer("destroy", user, id, NoStatus, 403, {}) /\ UNCHANGED posts
       ELSE /\ posts' = posts \ Found(user, id)
            /\ ContentAnswer("destroy", user, id, NoStatus, 204, {})
    /\ UNCHANGED lastPostId
    /\ UNCHANGED <<couponVars, referralVars, authVars>>

\* ContentAdmin.save_model: the row the admin form saves
Saved(obj, user) ==
    LET authored == IF obj.author = NoUser THEN [obj EXCEPT !.author = user.id] ELSE obj IN
    IF authored.status = "published" /\ authored.published_at = None
    THEN [authored EXCEPT !.published_at = now]
    ELSE IF authored.status # "published" /\ authored.published_at # None
    THEN [authored EXCEPT !.published_at = None]
    ELSE authored

\* the add form of the admin site, the author left empty
AdminAdd(status) ==
    /\ lastPostId < NumPosts
    /\ posts' = posts \cup {Saved(ContentRow(lastPostId + 1, NoUser, status, None), StaffUser)}
    /\ lastPostId' = lastPostId + 1
    /\ ContentAnswer("admin_add", StaffUser, lastPostId + 1, status, 200, {})
    /\ UNCHANGED <<couponVars, referralVars, authVars>>

\* the change form of the admin site
AdminChange(p, status) ==
    /\ p \in posts
    /\ posts' = (posts \ {p}) \cup {Saved([p EXCEPT !.status = status], StaffUser)}
    /\ ContentAnswer("admin_change", StaffUser, p.id, status, 200, {})
    /\ UNCHANGED lastPostId
    /\ UNCHANGED <<couponVars, referralVars, authVars>>

\* ContentAdmin.publish_selected
publish_selected(sel) ==
    /\ sel # {}
    /\ posts' = (posts \ sel)
                   \cup {[p EXCEPT !.status = "published", !.published_at = now] : p \in sel}
    /\ ContentAnswer("publish_selected", StaffUser, 0, "published", 200, {p.id : p \in sel})
    /\ UNCHANGED lastPostId
    /\ UNCHANGED <<couponVars, referralVars, authVars>>

\* ContentAdmin.unpublish_selected
unpublish_selected(sel) ==
    /\ sel # {}
    /\ posts' = (posts \ sel)
                   \cup {[p EXCEPT !.status = "draft", !.published_at = None] : p \in sel}
    /\ ContentAnswer("unpublish_selected", StaffUser, 0, "draft", 200, {p.id : p \in sel})
    /\ UNCHANGED lastPostId
    /\ UNCHANGED <<couponVars, referralVars, authVars>>

ContentNext ==
    \/ \E user \in Requesters : ContentList(user)
    \/ \E user \in Requesters, id \in PostIds : ContentRetrieve(user, id)
    \/ \E user \in Requesters, status \in StatusInputs : ContentCreate(user, status)
    \/ \E user \in Requesters, id \in PostIds, data \in StatusInputs \cup {NoStatus} :
          ContentUpdate(user, id, data)
    \/ \E user \in Requesters, id \in PostIds : ContentDestroy(user, id)
    \/ \E status \in StatusInputs : AdminAdd(status)
    \/ \E p \in posts, status \in StatusInputs : AdminChange(p, status)
    \/ \E sel \in SUBSET posts : publish_selected(sel)
    \/ \E sel \in SUBSET posts : unpublish_selected(sel)

ContentInit == ContentIdle /\ AuthIdle /\ ReferralIdle /\ CouponIdle

\* the content API and the content admin
SpecContent == ContentInit /\ [][ContentNext]_vars

(* ------------------------------ claims -------------------------------- *)

\* sessions that completed increment_usage on coupon k
Redeemers(k) == {s \in Sessions : spc[s] = "done" /\ starget[s] = k}
RedeemersOf(p) == {s \in Sessions : spc[s] = "done" /\ PromotionOf(starget[s]) = p}
AllSessionsOver == \A s \in Sessions : spc[s] \in {"done", "rejected"}

\* C1: when N concurrent redemptions of one coupon, each on its own loaded
\* instance, have all completed, the stored uses_count is its initial value
\* plus N.
C1_NoLostCouponIncrement ==
    AllSessionsOver =>
        \A k \in Coupons :
            couponDb[k].uses_count = CounterDefault + Cardinality(Redeemers(k))

\* every Referral row a register request has inserted for user u, committed
\* or still inside an open transaction
InsertedFor(u) ==
    {row \in referrals \cup UNION {rtx[r] : r \in Requests} : row.referred_user = u}

\* the user_referred events that carry a commission for user u
AwardsFor(u) ==
    {i \in DOMAIN events : events[i].user = u /\ events[i].commission_earned > 0}

\* C2: under any interleaving of register requests for the same user, with
\* the same or with different affiliate codes, no two requests both pass the
\* existence check and both insert: there is at most one Referral row for
\* the user, and at most one commission is awarded for the user.
C2_OneReferralPerUser ==
    \A u \in Users :
        /\ Cardinality(InsertedFor(u)) <= 1
        /\ Cardinality(AwardsFor(u)) <= 1

AllRequestsOver == \A r \in Requests : rpc[r] \in {"done", "failed"}

\* the requests that passed the existence check, the code lookup, the self
\* check and the insert for affiliate a: the ones the contract lets succeed
Passed(a) ==
    {r \in Requests : rresp[r] \in {"Created", "NameError"} /\ raff[r].id = a}

\* C3: when K register requests of distinct users with the code of one
\* affiliate and a commission c > 0 have run to their end without a storage
\* fault, the affiliate's balance and total_earned are each K*c above their
\* initial values.
C3_BalanceCreditedPerReferral ==
    (/\ AllRequestsOver
     /\ \A r \in Requests : rresp[r] # "Fault"
     /\ \A r, q \in Requests : r # q => ruser[r] # ruser[q])
    => \A a \in Affiliates :
          /\ affDb[a].balance =
                BalanceDefault + DefaultSignupCommission * Cardinality(Passed(a))
          /\ affDb[a].total_earned =
                BalanceDefault + DefaultSignupCommission * Cardinality(Passed(a))

\* C4: when N redemptions spread over different coupon codes of one
\* promotion have all completed, the stored total_uses_count of the promotion
\* is its initial value plus N.
C4_NoLostPromotionIncrement ==
    (/\ AllSessionsOver
     /\ \A s, t \in Sessions : s # t => starget[s] # starget[t])
    => \A p \in Promotions :
          promoDb[p].total_uses_count = CounterDefault + Cardinality(RedeemersOf(p))

\* C5: registration is all-or-nothing: the step on which a register request
\* fails leaves no Referral row of that request in the store and leaves every
\* affiliate's balance and total_earned, and the event log, as they were.
C5_FailedRegistrationLeavesNothing ==
    [][\A r \in Requests :
          (rpc[r] # "failed" /\ rpc'[r] = "failed") =>
              /\ referrals' = referrals
              /\ rtx[r] \cap referrals' = {}
              /\ rtx'[r] = {}
              /\ affDb' = affDb
              /\ events' = events]_vars

\* C5 witness: a request failed after its Referral insert
C5_FailedAfterInsert ==
    \E r \in Requests : rpc[r] = "failed" /\ rresp[r] = "NameError"

\* C6: a register request that passed every check (user not referred yet,
\* code of another user's profile ignoring case) with commission c > 0
\* succeeds: it answers 201, one new Referral of the user is stored with the
\* code in upper case, status commission_awarded and commission_earned = c,
\* and the affiliate's balance and total_earned are each c higher.
C6_RegistrationSucceeds ==
    [][\A r \in Requests :
          (/\ rpc[r] = "inserted"
           /\ rpc'[r] # "inserted"
           /\ rresp'[r] # "Fault"
           /\ DefaultSignupCommission > 0)
          => /\ rresp'[r] = "Created"
             /\ referrals' \ referrals =
                   {[referred_user |-> ruser[r],
                     referral_code_used |-> Upper(rcode[r]),
                     affiliate_profile |-> raff[r].id,
                     commission_earned |-> DefaultSignupCommission,
                     status |-> "commission_awarded"]}
             /\ affDb'[raff[r].id].balance =
                   affDb[raff[r].id].balance + DefaultSignupCommission
             /\ affDb'[raff[r].id].total_earned =
                   affDb[raff[r].id].total_earned + DefaultSignupCommission]_vars

\* C7: in a sequential run, a register request of a user for whom a Referral
\* exists is answered AlreadyReferred by the existence check, whatever its
\* code, and changes no Referral row, no balance and no total_earned.
C7_SecondRegistrationRejected ==
    [][\A r \in Requests :
          (/\ rpc[r] = "started"
           /\ rpc'[r] # "started"
           /\ rresp'[r] # "Fault"
           /\ \E row \in referrals : row.referred_user = ruser[r])
          => /\ rpc'[r] = "done"
             /\ rresp'[r] = "AlreadyReferred"
             /\ referrals' = referrals
             /\ affDb' = affDb
             /\ events' = events]_vars

\* C7 witness: a request was rejected as already referred, with a code that
\* is valid and belongs to another affiliate than the stored Referral's
C7_RejectedAlreadyReferred ==
    \E r \in Requests :
        /\ rpc[r] = "done"
        /\ rresp[r] = "AlreadyReferred"
        /\ rcode[r] = "refb"
        /\ \E row \in referrals :
              row.referred_user = ruser[r] /\ row.affiliate_profile = "A1"

\* C8: for every coupon whose max_uses is set, uses_count <= max_uses, each
\* redemption following a successful validate of the coupon.
C8_CouponCapRespected ==
    \A k \in Coupons :
        couponDb[k].max_uses # None => couponDb[k].uses_count <= couponDb[k].max_uses

\* C9: for every promotion whose max_uses is set, total_uses_count <=
\* max_uses, each redemption following a successful validate.
C9_PromotionCapRespected ==
    \A p \in Promotions :
        promoDb[p].max_uses # None =>
            promoDb[p].total_uses_count <= promoDb[p].max_uses

\* C10: each of the two writes of a redemption leaves its stored counter
\* exactly 1 above the value stored just before, also when the instance was
\* loaded before other redemptions were persisted.
C10_RedeemAddsExactlyOne ==
    [][\A s \in Sessions :
          /\ (spc[s] = "incremented" /\ spc'[s] = "couponSaved") =>
                couponDb'[starget[s]].uses_count =
                    couponDb[starget[s]].uses_count + 1
          /\ (spc[s] = "couponSaved" /\ spc'[s] = "done") =>
                promoDb'[PromotionOf(starget[s])].total_uses_count =
                    promoDb[PromotionOf(starget[s])].total_uses_count + 1]_vars

\* the validate request was answered for the coupon its code matched
Answered == vpc = "done" /\ vresp.kind = "result" /\ vfound # NoCoupon
FoundCoupon == couponDb[vfound]
FoundPromotion == promoDb[FoundCoupon.promotion]

\* the conditions of validity as the specification lists them, the promotion's
\* dates judged at the clock value tp and the coupon's at tc
AllConditionsHold(c, p, user, tp, tc) ==
    /\ c.is_active /\ p.is_active
    /\ tp >= p.start_date
    /\ (p.end_date = None \/ tp <= p.end_date)
    /\ (p.max_uses = None \/ p.total_uses_count < p.max_uses)
    /\ (c.valid_from = None \/ tc >= c.valid_from)
    /\ (c.valid_to = None \/ tc <= c.valid_to)
    /\ (c.max_uses = None \/ c.uses_count < c.max_uses)
    /\ (c.user_specific = NoUser \/ c.user_specific = user)

\* C11: for a code that matches a coupon, validate answers valid=true, with
\* the promotion's discount kind and value and the coupon and promotion ids,
\* exactly when coupon and promotion are active, the clock is inside the
\* promotion's window and the coupon's window, neither usage cap is reached
\* and the coupon is unrestricted or restricted to the requesting user.
C11_ValidIffAllConditions ==
    Answered =>
        /\ vresp.valid <=> AllConditionsHold(FoundCoupon, FoundPromotion, vuser,
                                             vreads[1], vreads[2])
        /\ vresp.valid =>
              /\ vresp.message = "Coupon is valid."
              /\ vresp.discount_type = FoundPromotion.discount_type
              /\ vresp.discount_value = FoundPromotion.discount_value
              /\ vresp.coupon_id = vfound
              /\ vresp.promotion_id = FoundCoupon.promotion

\* a coupon restricted to the requesting user, capped and inside both windows
\* at their last instant, is accepted
C11_RestrictedCappedAccepted ==
    /\ Answered /\ vresp.valid
    /\ FoundCoupon.user_specific = vuser
    /\ FoundCoupon.max_uses # None /\ FoundPromotion.max_uses # None
    /\ FoundPromotion.end_date = vreads[1] /\ FoundCoupon.valid_to = vreads[2]

\* the message the specification assigns to a rejected coupon: that of the
\* first predicate, in the fixed order, that fails at the clock values tp
\* (promotion) and tc (coupon) at which validity was decided
FirstFailingMessage(c, p, user, tp, tc) ==
    CASE ~(c.is_active /\ p.is_active) -> "Coupon code is not active."
      [] ~(tp >= p.start_date) -> "Promotion has not started yet."
      [] ~(p.end_date = None \/ tp <= p.end_date) -> "Promotion has expired."
      [] ~(c.valid_from = None \/ tc >= c.valid_from) -> "Coupon is not yet valid."
      [] ~(c.valid_to = None \/ tc <= c.valid_to) -> "Coupon has expired."
      [] ~(c.max_uses = None \/ c.uses_count < c.max_uses)
            -> "Coupon has reached its usage limit."
      [] ~(c.user_specific = NoUser \/ c.user_specific = user)
            -> "Coupon is not valid for this user."
      [] OTHER -> "no listed predicate fails"

\* C12: whenever validate answers valid=false for a coupon, the message is the
\* specific message of the first failing predicate in the order active flags,
\* promotion start, promotion end, coupon valid_from, coupon valid_to, coupon
\* usage cap, user restriction, also when the clock advances between the
\* decision and the choice of the message.
C12_MessageOfFirstFailing ==
    (Answered /\ ~vresp.valid) =>
        vresp.message = FirstFailingMessage(FoundCoupon, FoundPromotion, vuser,
                                            vreads[1], vreads[2])

\* C13: a coupon that is inactive, or whose promotion is inactive, is answered
\* valid=false with the message 'Coupon code is not active.', whatever its
\* dates, counters, caps and user restriction.
C13_InactiveRejected ==
    (Answered /\ (~FoundCoupon.is_active \/ ~FoundPromotion.is_active)) =>
        /\ ~vresp.valid
        /\ vresp.message = "Coupon code is not active."

\* an active coupon of an inactive promotion that also has not started, with
\* the coupon's cap reached and restricted to another user, is rejected
C13_InactivePromotionRejected ==
    /\ Answered /\ ~vresp.valid
    /\ FoundCoupon.is_active /\ ~FoundPromotion.is_active
    /\ FoundPromotion.start_date > now
    /\ FoundCoupon.max_uses # None /\ FoundCoupon.uses_count >= FoundCoupon.max_uses
    /\ FoundCoupon.user_specific \notin {NoUser, vuser}

\* the predicates that precede the coupon's usage cap in the order of the
\* messages hold at the clock values m1..m4 read when the message is chosen
BeforeCapHold(c, p, m1, m2, m3, m4) ==
    /\ c.is_active /\ p.is_active
    /\ m1 >= p.start_date
    /\ (p.end_date = None \/ m2 <= p.end_date)
    /\ (c.valid_from = None \/ m3 >= c.valid_from)
    /\ (c.valid_to = None \/ m4 <= c.valid_to)

CapReached(c) == c.max_uses # None /\ c.uses_count = c.max_uses

\* C14 as stated: a coupon with max_uses set and uses_count == max_uses is
\* answered valid=false with 'Coupon has reached its usage limit.'.
C14_CapReachedUsageMessage ==
    (Answered /\ CapReached(FoundCoupon)) =>
        /\ ~vresp.valid
        /\ vresp.message = "Coupon has reached its usage limit."

\* C14, amended: a coupon with max_uses set and uses_count == max_uses is
\* answered valid=false; its message is 'Coupon has reached its usage limit.'
\* exactly when coupon and promotion are active and the clock, as read when
\* the message is chosen, is inside the promotion's and the coupon's windows.
C14_CapReachedRejected ==
    (Answered /\ CapReached(FoundCoupon)) =>
        /\ ~vresp.valid
        /\ vresp.message = "Coupon has reached its usage limit." <=>
              BeforeCapHold(FoundCoupon, FoundPromotion,
                            vreads[3], vreads[4], vreads[5], vreads[6])

\* a coupon at its cap, restricted to another user, gets the usage-limit message
C14_UsageLimitAnswered ==
    /\ Answered /\ CapReached(FoundCoupon)
    /\ FoundCoupon.user_specific \notin {NoUser, vuser}
    /\ vresp.message = "Coupon has reached its usage limit."

\* the coupon is restricted to a user other than the one asking
ForAnotherUser(c, user) == c.user_specific # NoUser /\ c.user_specific # user

\* C15 as stated: a coupon restricted to user U is answered, for every other
\* user V, valid=false with 'Coupon is not valid for this user.', and U is
\* never rejected because of the restriction.
C15_OtherUserGetsUserMessage ==
    Answered =>
        /\ ForAnotherUser(FoundCoupon, vuser) =>
              /\ ~vresp.valid
              /\ vresp.message = "Coupon is not valid for this user."
        /\ FoundCoupon.user_specific = vuser =>
              vresp.message # "Coupon is not valid for this user."

\* C15, amended: a coupon restricted to user U is answered valid=false for
\* every other user V; the message is 'Coupon is not valid for this user.'
\* exactly when coupon and promotion are active, the clock read when the
\* message is chosen is inside both windows and the coupon's cap is not
\* reached.  For U the answer is the one of an unrestricted coupon: valid
\* exactly when all other conditions hold, and never the user message.
C15_OtherUserRejected ==
    Answered =>
        /\ ForAnotherUser(FoundCoupon, vuser) =>
              /\ ~vresp.valid
              /\ vresp.message = "Coupon is not valid for this user." <=>
                    /\ BeforeCapHold(FoundCoupon, FoundPromotion,
                                     vreads[3], vreads[4], vreads[5], vreads[6])
                    /\ ~(FoundCoupon.max_uses # None
                         /\ FoundCoupon.uses_count >= FoundCoupon.max_uses)
        /\ FoundCoupon.user_specific = vuser =>
              /\ vresp.message # "Coupon is not valid for this user."
              /\ vresp.valid <=>
                    AllConditionsHold([FoundCoupon EXCEPT !.user_specific = NoUser],
                                      FoundPromotion, vuser, vreads[1], vreads[2])

\* another user is told that the coupon is not valid for this user
C15_UserMessageAnswered ==
    /\ Answered /\ ForAnotherUser(FoundCoupon, vuser)
    /\ ~vresp.valid
    /\ vresp.message = "Coupon is not valid for this user."

\* the request carried a code that no stored coupon code equals ignoring case,
\* and was answered
UnknownCodeAnswered == vpc = "done" /\ vcode # "" /\ MatchingCoupons(vcode) = {}

\* C16 as stated: when no stored code equals the submitted code ignoring case,
\* validate answers valid=false with the message 'Invalid coupon code' and
\* without discount kind, discount value, coupon id and promotion id.
C16_UnknownCodeMessage ==
    UnknownCodeAnswered =>
        /\ vresp.kind = "result" /\ ~vresp.valid
        /\ vresp.message = "Invalid coupon code"
        /\ vresp.discount_type = NoType /\ vresp.discount_value = None
        /\ vresp.coupon_id = NoCoupon /\ vresp.promotion_id = NoCoupon

\* C16, amended: when no stored code equals the submitted code ignoring case,
\* validate answers valid=false with the message 'Invalid coupon code.' (with
\* the full stop) and without discount kind, discount value, coupon id and
\* promotion id.
C16_UnknownCodeRejected ==
    UnknownCodeAnswered =>
        /\ vresp.kind = "result" /\ ~vresp.valid
        /\ vresp.message = "Invalid coupon code."
        /\ vresp.discount_type = NoType /\ vresp.discount_value = None
        /\ vresp.coupon_id = NoCoupon /\ vresp.promotion_id = NoCoupon

\* the code NOPE, stored nowhere, was answered
C16_UnknownCodeSeen ==
    /\ UnknownCodeAnswered /\ vcode = "NOPE"
    /\ vresp.kind = "result" /\ vfound = NoCoupon

\* C17: the lookup is case-insensitive and total: for every submitted code and
\* every store, also one holding two codes that differ only in letter case,
\* validate returns an ordinary result and never a fault, and when a stored
\* code equals the submitted one ignoring case the result is the one computed
\* for that coupon.
C17_LookupTotal ==
    (vpc = "done" /\ vcode # "") =>
        /\ vresp.kind = "result"
        /\ MatchingCoupons(vcode) # {} =>
              \E k \in MatchingCoupons(vcode) :
                  vresp = ValidationResult(k, vuser, vreads)

\* C18: validate performs no mutation: a validate call leaves every
\* CouponCode, Promotion, AffiliateProfile, Referral and TrackedEvent row
\* unchanged, and calling it again with the same arguments at the same clock
\* value returns the same result.
C18_ValidateMutatesNothing ==
    /\ [][validateVars' # validateVars =>
            UNCHANGED <<couponDb, promoDb, affDb, referrals, events>>]_vars
    /\ [](vpc = "done" /\ ClockStood =>
            \A i \in 1..Len(vprev) :
                vprev[i].at = now => vresp = vprev[i].resp)

\* the second call at one clock value accepted the coupon as the first did
C18_SecondCallAccepted ==
    /\ vpc = "done" /\ Len(vreads) = NumClockReads /\ ClockStood
    /\ Len(vprev) >= 1 /\ vprev[Len(vprev)].at = now
    /\ vresp.valid

\* the code of request r is, ignoring case, the referral code of the
\* requesting user's own AffiliateProfile
OwnCode(r) == \E a \in MatchingProfiles(rcode[r]) : affDb[a].user = ruser[r]
RequestOver(r) == rpc[r] \in {"done", "failed"}
CommittedReferralsOf(u) == {row \in referrals : row.referred_user = u}

\* C19 as stated: a user who registers with the code of the user's own
\* AffiliateProfile is rejected with SelfReferral (no storage fault occurring).
C19_OwnCodeSelfReferral ==
    \A r \in Requests :
        (RequestOver(r) /\ rresp[r] # "Fault" /\ OwnCode(r)) =>
            rresp[r] = "SelfReferral"

\* C19, amended: a user without a Referral who registers with the code of the
\* user's own AffiliateProfile is rejected with SelfReferral (no storage fault
\* occurring); a user who has a Referral is rejected with AlreadyReferred.
\* In both cases no step of the request creates a Referral row, changes a
\* balance or total_earned, or records an event.
C19_SelfReferralRejected ==
    [][\A r \in Requests :
          /\ (OwnCode(r) /\ rpc'[r] # rpc[r]) =>
                (UNCHANGED stored /\ rtx'[r] = {})
          /\ (OwnCode(r) /\ ~RequestOver(r) /\ rpc'[r] \in {"done", "failed"}
              /\ rresp'[r] # "Fault") =>
                rresp'[r] = (IF CommittedReferralsOf(ruser[r]) = {}
                             THEN "SelfReferral" ELSE "AlreadyReferred")]_vars

\* user 1 posted the own code in lower case and was rejected as self-referral
C19_SelfReferralSeen ==
    \E r \in Requests :
        /\ rpc[r] = "done" /\ rresp[r] = "SelfReferral"
        /\ ruser[r] = 1 /\ rcode[r] = "refa"

\* some AffiliateProfile's referral code equals the code ignoring letter case
KnownCode(code) == \E a \in Affiliates : Upper(affDb[a].referral_code) = Upper(code)

\* C20: a not-yet-referred user who registers with a code that equals no
\* AffiliateProfile's referral code ignoring case is rejected with InvalidCode
\* (no storage fault occurring), and no step of the request creates a Referral
\* row or changes a balance; a code that differs from an existing referral
\* code only in letter case is not rejected as invalid.
C20_UnknownCodeRejected ==
    [][\A r \in Requests :
          /\ (rcode[r] # "" /\ ~KnownCode(rcode[r]) /\ rpc'[r] # rpc[r]) =>
                (UNCHANGED stored /\ rtx'[r] = {})
          /\ (rcode[r] # "" /\ ~KnownCode(rcode[r])
              /\ CommittedReferralsOf(ruser[r]) = {}
              /\ ~RequestOver(r) /\ rpc'[r] \in {"done", "failed"}
              /\ rresp'[r] # "Fault") =>
                rresp'[r] = "InvalidCode"
          /\ (KnownCode(rcode[r]) /\ rpc'[r] \in {"done", "failed"}) =>
                rresp'[r] # "InvalidCode"]_vars

\* an unknown code was rejected as invalid, and a request with a code in
\* lower case went past the lookup
C20_InvalidCodeSeen ==
    /\ \E r \in Requests :
          /\ rpc[r] = "done" /\ rresp[r] = "InvalidCode" /\ rcode[r] = "NOPE"
          /\ CommittedReferralsOf(ruser[r]) = {}
    /\ \E r \in Requests :
          /\ rcode[r] = "refb" /\ rpc[r] = "failed" /\ rresp[r] = "NameError"

\* the user_referred events recorded for the user of request r
ReferralEventsOf(r) ==
    {i \in DOMAIN events :
        events[i].event_type = "user_referred" /\ events[i].user = ruser[r]}

\* the Referral rows that registration created (they carry a commission)
RegistrationRows == {row \in referrals : row.commission_earned # None}

\* C21: every register request that succeeds, that is one of a user not yet
\* referred with the code of another user's profile and without a storage
\* fault, records exactly one audit event carrying the referred user, the
\* code, the affiliate and the commission; a rejected or rolled back request
\* records none; the number of referral audit events equals the number of
\* Referral rows created by registration.
C21_EventPerRegistration ==
    /\ \A r \in Requests :
          (RequestOver(r) /\ rresp[r] \in {"Created", "NameError"}) =>
              /\ Cardinality(ReferralEventsOf(r)) = 1
              /\ \A i \in ReferralEventsOf(r) :
                    /\ events[i].referral_code = rcode[r]
                    /\ events[i].affiliate_user_id = raff[r].user
                    /\ events[i].commission_earned = DefaultSignupCommission
    /\ \A r \in Requests :
          (RequestOver(r) /\ rresp[r] \notin {"Created", "NameError"}) =>
              ReferralEventsOf(r) = {}
    /\ Len(events) = Cardinality(RegistrationRows)

\* the place of a status in the chain pending -> confirmed ->
\* commission_awarded -> paid_out
ChainRank(st) ==
    CASE st = "pending" -> 0
      [] st = "confirmed" -> 1
      [] st = "commission_awarded" -> 2
      [] st = "paid_out" -> 3
      [] OTHER -> None

StatusMayBecome(s, t) ==
    \/ s = t
    \/ s # "cancelled" /\ t = "cancelled"
    \/ ChainRank(s) # None /\ ChainRank(t) # None /\ ChainRank(s) < ChainRank(t)

\* C22: over registration, the admin actions and the admin API updates, the
\* status of a Referral (the row of one referred user and one affiliate
\* profile) only moves forward along pending -> confirmed ->
\* commission_awarded -> paid_out, or to cancelled; it never moves backward
\* and never leaves cancelled or paid_out for an earlier status.
C22_StatusOnlyForward ==
    [][\A row \in referrals : \A after \in referrals' :
          SameKey(row, after) => StatusMayBecome(row.status, after.status)]_vars

\* C23: over any sequence of register steps, profile get and patch and
\* referral admin actions (cancellation included), the total_earned and the
\* balance of an AffiliateProfile never decrease.
C23_AmountsNeverDecrease ==
    [][\A a \in DOMAIN affDb :
          a \in DOMAIN affDb' =>
              /\ affDb'[a].total_earned >= affDb[a].total_earned
              /\ affDb'[a].balance >= affDb[a].balance]_vars

\* C23 witness: a profile was created by get, another was patched, a referral
\* was cancelled, and every amount is what it was
C23_PatchedAndCancelled ==
    /\ "A3" \in DOMAIN affDb
    /\ ~affDb["A1"].is_active
    /\ \E row \in referrals : row.status = "cancelled" /\ row.affiliate_profile = "A1"
    /\ \A a \in DOMAIN affDb :
          affDb[a].balance = BalanceDefault /\ affDb[a].total_earned = BalanceDefault

\* C24: the TrackedEvent log is append-only: over any sequence of operations
\* every event once recorded stays in the log with its type, user, timestamp
\* and data unchanged; operations only add events.
C24_EventLogAppendOnly ==
    [][/\ Len(events') >= Len(events)
       /\ SubSeq(events', 1, Len(events)) = events]_vars

\* the last step was an authenticate call with a verified token that carries
\* an email
VerifiedCallMade ==
    /\ acalls' = acalls + 1
    /\ atoken'.kind = "ok"
    /\ atoken'.email # ""

\* C25: across authenticate calls with verified tokens that carry an email
\* there is exactly one local user per uid: the first call for a uid creates
\* the user (username = uid, email from the token) and triggers one welcome
\* email and one user_signup event; every later call for the uid returns that
\* same user and triggers no welcome email and no signup event.
C25_OneUserPerUid ==
    /\ [](\A uid \in Uids : Cardinality(UsersWithUid(uid)) <= 1)
    /\ [][VerifiedCallMade =>
            LET uid == atoken'.uid
                before == {u \in users : u.firebase_uid = uid}
                after == {u \in users' : u.firebase_uid = uid}
            IN IF before = {}
               THEN /\ Cardinality(after) = 1
                    /\ \A u \in after :
                          /\ u.username = uid
                          /\ u.email = atoken'.email
                          /\ aret' = u.id
                    /\ outbox' = Append(outbox, atoken'.email)
                    /\ Len(events') = Len(events) + 1
                    /\ events'[Len(events')].event_type = "user_signup"
                    /\ events'[Len(events')].user = aret'
               ELSE /\ {u.id : u \in after} = {u.id : u \in before}
                    /\ \A u \in before : aret' = u.id
                    /\ outbox' = outbox
                    /\ events' = events]_vars

\* the requester a content request came from
RequesterOf(id) == CHOOSE u \in Requesters : u.id = id

\* what the requester may see: published rows for everyone, the requester's
\* own rows for a signed-in requester, every row for staff
MaySee(u, p) ==
    \/ p.status = "published"
    \/ u.is_authenticated /\ p.author = u.id
    \/ u.is_authenticated /\ u.is_staff

\* C26: the list operation returns exactly the published items for an
\* anonymous requester, the requester's own items of any status plus all
\* published items for a signed-in non-staff requester, and all items for
\* staff; retrieving an item outside that set yields not-found, an item inside
\* it is returned.
C26_ListVisibility ==
    /\ creq.op = "list" =>
          /\ creq.code = 200
          /\ creq.items = {p.id : p \in {q \in posts : MaySee(RequesterOf(creq.user), q)}}
    /\ creq.op = "retrieve" =>
          IF \E p \in posts : p.id = creq.target /\ MaySee(RequesterOf(creq.user), p)
          THEN creq.code = 200
          ELSE creq.code = 404

\* C26 witness: a non-staff user listed while another user had a published
\* and an unpublished item: the list holds the published one only
C26_ListedOthersPublished ==
    /\ creq.op = "list"
    /\ creq.user = 2
    /\ \E p \in posts, q \in posts :
          /\ p.author = 1 /\ p.status = "published"
          /\ q.author = 1 /\ q.status = "draft"
          /\ creq.items = {p.id}

ContentWrites == {"update", "destroy", "admin_change", "publish_selected", "unpublish_selected"}

\* C27: a content item is never modified or deleted by a request of a
\* requester who is neither its author nor staff, and no item is created by
\* an unauthenticated request: a non-staff user's update of another user's
\* unpublished item is answered not-found and changes nothing, an
\* unauthenticated create is answered forbidden and adds nothing, and the
\* author's own update and delete take effect.
C27_WritesByAuthorOrStaff ==
    [][LET u == RequesterOf(creq'.user)
           target == {p \in posts : p.id = creq'.target}
       IN /\ \A p \in posts :
                p \notin posts' =>
                    /\ creq'.op \in ContentWrites
                    /\ u.is_authenticated
                    /\ p.author = u.id \/ u.is_staff
          /\ ~u.is_authenticated => posts' = posts
          /\ (creq'.op = "create" /\ ~u.is_authenticated) => creq'.code = 403
          /\ \A p \in target :
                (/\ creq'.op = "update"
                 /\ u.is_authenticated /\ ~u.is_staff
                 /\ p.author # u.id /\ p.status # "published") =>
                    creq'.code = 404 /\ posts' = posts
          /\ \A p \in target :
                (creq'.op = "update" /\ u.is_authenticated /\ p.author = u.id) =>
                    /\ creq'.code = 200
                    /\ \E q \in posts' :
                          /\ q.id = p.id
                          /\ q.author = p.author
                          /\ q.status = IF creq'.data = NoStatus THEN p.status
                                        ELSE creq'.data
          /\ \A p \in target :
                (creq'.op = "destroy" /\ u.is_authenticated /\ p.author = u.id) =>
                    /\ creq'.code = 204
                    /\ \A q \in posts' : q.id # p.id]_vars

\* C27 witness: a non-staff user's update of another user's draft was answered
\* not-found, and the draft is as it was
C27_ForeignDraftNotFound ==
    /\ creq.op = "update"
    /\ creq.user = 2
    /\ creq.data = "published"
    /\ creq.code = 404
    /\ \E p \in posts :
          p.id = creq.target /\ p.author = 1 /\ p.status = "draft" /\ p.published_at = None

\* C30: after any sequence of content operations (API create, API update,
\* admin save, publish_selected, unpublish_selected) a content item has
\* published_at set if and only if its status is 'published'.
C30_PublishedAtIffPublished ==
    \A p \in posts : (p.published_at # None) <=> (p.status = "published")

\* the values promotion.max_uses_per_user may have
PerUserCaps == {None, 0, 1, 2}

\* C28: the result of validate does not depend on the promotion's per-user
\* cap: in a store that differs only in promotion.max_uses_per_user (unset or
\* any value) the same code and user get the same valid flag, message and
\* discount terms.
C28_PerUserCapIgnored ==
    Answered =>
        \A m \in PerUserCaps :
            ResultFor(FoundCoupon, [FoundPromotion EXCEPT !.max_uses_per_user = m],
                      vfound, vuser, ReadsMade) = vresp

\* C28 witness: a coupon was accepted whose promotion has been used once
C28_AcceptedUsedPromotion ==
    /\ Answered /\ vresp.valid
    /\ FoundPromotion.total_uses_count = 1
    /\ FoundPromotion.max_uses_per_user = None

CouponsOf(p) == {k \in Coupons : couponDb[k].promotion = p}

RECURSIVE SumUses(_)
SumUses(S) ==
    IF S = {} THEN 0
    ELSE LET k == CHOOSE x \in S : TRUE
         IN couponDb[k].uses_count + SumUses(S \ {k})

\* C29: in every reachable state of a run whose only counter mutations are
\* redemptions (counters start at 0), each promotion's total_uses_count equals
\* the sum of uses_count over the coupon codes of that promotion, also in the
\* states a redemption leaves when it stops between its two writes.
C29_TotalIsSumOfUses ==
    \A p \in Promotions : promoDb[p].total_uses_count = SumUses(CouponsOf(p))

====
